---- MODULE Spec2Model ----
(***************************************************************************)
(* Model of the error_traits combinators (src/src/lib.rs and               *)
(* src/src/log_err.rs).  Every combinator is a single call on a value      *)
(* owned by the caller.  A call is one action; it records the method that  *)
(* ran (op), the arguments it received (arg), the value it returned (ret)  *)
(* and, in order, the calls it made to caller-supplied closures, to        *)
(* ToString/Display and to the logging facility (events).                  *)
(***************************************************************************)
EXTENDS Integers, Sequences, FiniteSets, TLC

\* ---------------------------------------------------------------- bounds
\* Payloads of type T / E are integers in -MaxVal .. MaxVal.
MaxVal == 12

\* ---------------------------------------------------------------- data
\* Result::Ok(v)
Ok(v) == [tag |-> "Ok", val |-> v]

\* Result::Err(e)
Err(e) == [tag |-> "Err", val |-> e]

\* Option::Some(v)
Some(v) == [tag |-> "Some", val |-> v]

\* Option::None
None == [tag |-> "None"]

\* Integer payloads (both signs, one and two decimal digits).
Values == (0 - MaxVal) .. MaxVal

\* The values of a Result<T, E> with integer T and E.
Results == {Ok(v) : v \in Values} \cup {Err(e) : e \in Values}

\* One entry of a call's event list: a callee that was invoked and the
\* argument it was invoked with.
Event(name, x) == [ev |-> name, x |-> x]

\* How many times the callee `name` was invoked during a call.
Count(evs, name) == Cardinality({i \in 1 .. Len(evs) : evs[i].ev = name})

\* ---------------------------------------------------------------- closures
\* Producers handed to map_err_by (f : impl Fn() -> N), by name.
Producers == {"my_error", "timeout", "empty"}

\* The value a producer returns when it is called.
Produce(f) ==
    CASE f = "my_error" -> "MyError"
      [] f = "timeout"  -> "Timeout"
      [] f = "empty"    -> ""

\* Predicates handed to to_none_if / to_err_if (cond : impl Fn(&Self) -> bool).
Conds == {"gt3", "is_zero", "negative", "always", "never"}

\* The boolean a predicate returns on v.
Cond(p, v) ==
    CASE p = "gt3"      -> v > 3
      [] p = "is_zero"  -> v = 0
      [] p = "negative" -> v < 0
      [] p = "always"   -> TRUE
      [] p = "never"    -> FALSE

\* Failure payload expressions written at a to_err_if call site.
ErrExprs == {"too big", "bad value"}

\* Prefixes handed to log_err.
Prefixes == {"", "err: ", "some_log_prefix: error"}

\* ---------------------------------------------------------------- rendering
\* One decimal digit as text.
DigitChar(d) ==
    CASE d = 0 -> "0" [] d = 1 -> "1" [] d = 2 -> "2" [] d = 3 -> "3"
      [] d = 4 -> "4" [] d = 5 -> "5" [] d = 6 -> "6" [] d = 7 -> "7"
      [] d = 8 -> "8" [] d = 9 -> "9"

RECURSIVE Digits(_)
\* Decimal digits of a natural number, most significant first.
Digits(n) ==
    IF n < 10 THEN DigitChar(n)
    ELSE Digits(n \div 10) \o DigitChar(n % 10)

\* e.to_string() / "{e}" for an integer e.
to_string(e) == IF e < 0 THEN "-" \o Digits(0 - e) ELSE Digits(e)

\* ---------------------------------------------------------------- combinators
\* Each combinator yields the value it returns and the events of the call.

\* Variant: self.unwrap_or_default()
merge_ok_err_default(r) ==
    [ret |-> IF r.tag = "Ok" THEN r.val ELSE 0, events |-> <<>>]

\* Variant: self.err().unwrap_or_default()
merge_ok_err_drop_ok(r) ==
    [ret |-> IF r.tag = "Ok" THEN 0 ELSE r.val, events |-> <<>>]

\* self.unwrap_or_else(|err| err)
merge_ok_err(r) ==
    [ret |-> IF r.tag = "Ok" THEN r.val ELSE r.val, events |-> <<>>]

\* Variant: let n = f(); self.map_err(|_| n)
map_err_by_eager(r, f) ==
    [ret    |-> IF r.tag = "Err" THEN Err(Produce(f)) ELSE r,
     events |-> <<Event("f", "()")>>]

\* self.map_err(|_| f())
map_err_by(r, f) ==
    IF r.tag = "Err"
    THEN [ret |-> Err(Produce(f)), events |-> <<Event("f", "()")>>]
    ELSE [ret |-> r, events |-> <<>>]

\* Variant: the rendering loses the sign.
map_err_to_str_abs(r) ==
    IF r.tag = "Err"
    THEN [ret    |-> Err(Digits(IF r.val < 0 THEN 0 - r.val ELSE r.val)),
          events |-> <<Event("to_string", r.val)>>]
    ELSE [ret |-> r, events |-> <<>>]

\* self.map_err(|e| e.to_string())
map_err_to_str(r) ==
    IF r.tag = "Err"
    THEN [ret    |-> Err(to_string(r.val)),
          events |-> <<Event("to_string", r.val)>>]
    ELSE [ret |-> r, events |-> <<>>]

\* Ok(self)
in_ok(v) == [ret |-> Ok(v), events |-> <<>>]

\* Variant: Ok(self)
in_err_as_ok(v) == [ret |-> Ok(v), events |-> <<>>]

\* Err(self)
in_err(v) == [ret |-> Err(v), events |-> <<>>]

\* Variant: the observer runs on either variant.
pass_err_with_always(r) ==
    [ret |-> r, events |-> <<Event("f", r.val)>>]

\* if let Err(e) = &self { f(e) }  self
pass_err_with(r) ==
    [ret    |-> r,
     events |-> IF r.tag = "Err" THEN <<Event("f", r.val)>> ELSE <<>>]

\* Variant: the predicate is consulted a second time before None.
to_none_if_twice(v, cond) ==
    [ret    |-> IF Cond(cond, v) /\ Cond(cond, v) THEN None ELSE Some(v),
     events |-> IF Cond(cond, v)
                THEN <<Event("cond", v), Event("cond", v)>>
                ELSE <<Event("cond", v)>>]

\* match cond(&self) { true => None, _ => Some(self) }
to_none_if(v, cond) ==
    [ret    |-> IF Cond(cond, v) THEN None ELSE Some(v),
     events |-> <<Event("cond", v)>>]

\* Variant: the match arms are swapped.
to_err_if_inverted(v, cond, err) ==
    [ret    |-> IF Cond(cond, v) THEN Ok(v) ELSE Err(err),
     events |-> <<Event("err", err), Event("cond", v)>>]

\* Variant: err : impl FnOnce() -> T, called in the true arm only.
to_err_if_lazy(v, cond, err) ==
    [ret    |-> IF Cond(cond, v) THEN Err(err) ELSE Ok(v),
     events |-> IF Cond(cond, v)
                THEN <<Event("cond", v), Event("err", err)>>
                ELSE <<Event("cond", v)>>]

\* fn to_err_if<T>(self, cond, err: T): err is a by-value parameter, so the
\* caller's payload expression has been evaluated when the body starts;
\* match cond(&self) { true => Err(err), _ => Ok(self) }
to_err_if(v, cond, err) ==
    [ret    |-> IF Cond(cond, v) THEN Err(err) ELSE Ok(v),
     events |-> <<Event("err", err), Event("cond", v)>>]

\* Variant: log::error!("{log_prefix}: {e}")
log_err_separator(r, log_prefix, logger) ==
    [ret    |-> r,
     events |-> IF r.tag = "Err"
                THEN <<Event("log::error", log_prefix \o ": " \o to_string(r.val))>>
                ELSE <<>>,
     logger |-> logger]

\* if let Err(e) = &self { log::error!("{log_prefix}{e}") }  self
\* logger is the state of the process-wide logging facility (installed or
\* not); the call hands it back as it found it.
log_err(r, log_prefix, logger) ==
    [ret    |-> r,
     events |-> IF r.tag = "Err"
                THEN <<Event("log::error", log_prefix \o to_string(r.val))>>
                ELSE <<>>,
     logger |-> logger]

\* ---------------------------------------------------------------- state
VARIABLES
    op,          \* the combinator of the latest call, "none" before any call
    arg,         \* the arguments of that call
    ret,         \* the value that call returned
    events,      \* the callee invocations that call made, in order
    loggerInit   \* whether the application installed a logger

vars == <<op, arg, ret, events, loggerInit>>

Init ==
    /\ op = "none"
    /\ arg = <<>>
    /\ ret = <<>>
    /\ events = <<>>
    /\ loggerInit \in BOOLEAN

\* ---------------------------------------------------------------- calls
MergeOkErr ==
    \E r \in Results :
        /\ op' = "merge_ok_err"
        /\ arg' = [r |-> r]
        /\ ret' = merge_ok_err(r).ret
        /\ events' = merge_ok_err(r).events
        /\ UNCHANGED loggerInit

MapErrBy ==
    \E r \in Results, f \in Producers :
        /\ op' = "map_err_by"
        /\ arg' = [r |-> r, f |-> f]
        /\ ret' = map_err_by(r, f).ret
        /\ events' = map_err_by(r, f).events
        /\ UNCHANGED loggerInit

MapErrToStr ==
    \E r \in Results :
        /\ op' = "map_err_to_str"
        /\ arg' = [r |-> r]
        /\ ret' = map_err_to_str(r).ret
        /\ events' = map_err_to_str(r).events
        /\ UNCHANGED loggerInit

InOk ==
    \E v \in Values :
        /\ op' = "in_ok"
        /\ arg' = [v |-> v]
        /\ ret' = in_ok(v).ret
        /\ events' = in_ok(v).events
        /\ UNCHANGED loggerInit

InErr ==
    \E v \in Values :
        /\ op' = "in_err"
        /\ arg' = [v |-> v]
        /\ ret' = in_err(v).ret
        /\ events' = in_err(v).events
        /\ UNCHANGED loggerInit

PassErrWith ==
    \E r \in Results :
        /\ op' = "pass_err_with"
        /\ arg' = [r |-> r]
        /\ ret' = pass_err_with(r).ret
        /\ events' = pass_err_with(r).events
        /\ UNCHANGED loggerInit

ToNoneIf ==
    \E v \in Values, cond \in Conds :
        /\ op' = "to_none_if"
        /\ arg' = [v |-> v, cond |-> cond]
        /\ ret' = to_none_if(v, cond).ret
        /\ events' = to_none_if(v, cond).events
        /\ UNCHANGED loggerInit

ToErrIf ==
    \E v \in Values, cond \in Conds, err \in ErrExprs :
        /\ op' = "to_err_if"
        /\ arg' = [v |-> v, cond |-> cond, err |-> err]
        /\ ret' = to_err_if(v, cond, err).ret
        /\ events' = to_err_if(v, cond, err).events
        /\ UNCHANGED loggerInit

LogErr ==
    \E r \in Results, log_prefix \in Prefixes :
        /\ op' = "log_err"
        /\ arg' = [r |-> r, log_prefix |-> log_prefix]
        /\ ret' = log_err(r, log_prefix, loggerInit).ret
        /\ events' = log_err(r, log_prefix, loggerInit).events
        /\ loggerInit' = log_err(r, log_prefix, loggerInit).logger

Next ==
    \/ MergeOkErr
    \/ MapErrBy
    \/ MapErrToStr
    \/ InOk
    \/ InErr
    \/ PassErrWith
    \/ ToNoneIf
    \/ ToErrIf
    \/ LogErr

Spec == Init /\ [][Next]_vars

\* ---------------------------------------------------------------- properties

\* C1: map_err_by on Err(e) returns Err(f()), whatever e was; on Ok(v) it
\* returns Ok(v) and f is not called at all.
C1_MapErrBy ==
    op = "map_err_by" =>
        /\ arg.r.tag = "Err" =>
              /\ ret.tag = "Err"
              /\ ret.val = Produce(arg.f)
        /\ arg.r.tag = "Ok" =>
              /\ ret.tag = "Ok"
              /\ ret.val = arg.r.val
              /\ Count(events, "f") = 0

C1_Witness ==
    /\ op = "map_err_by"
    /\ arg.r.tag = "Ok"
    /\ arg.r.val = 7
    /\ arg.f = "my_error"
    /\ ret.tag = "Ok"
    /\ events = <<>>

\* C2: pass_err_with returns its input; on Err(e) the observer is called
\* exactly once, with e; on Ok it is not called.
C2_PassErrWith ==
    op = "pass_err_with" =>
        /\ ret.tag = arg.r.tag
        /\ ret.val = arg.r.val
        /\ arg.r.tag = "Err" => events = <<Event("f", arg.r.val)>>
        /\ arg.r.tag = "Ok" => events = <<>>

C2_Witness ==
    /\ op = "pass_err_with"
    /\ arg.r.tag = "Err"
    /\ arg.r.val = 0 - 3
    /\ Count(events, "f") = 1
    /\ ret.tag = "Err"

\* C3: to_err_if returns Err(err) exactly when cond(v) is true and Ok(v)
\* otherwise; 5 with "greater than 3" gives Err, 2 gives Ok(2).
C3_ToErrIf ==
    op = "to_err_if" =>
        /\ (ret.tag = "Err") <=> Cond(arg.cond, arg.v)
        /\ ret.tag = "Err" => ret.val = arg.err
        /\ ret.tag # "Err" => ret.tag = "Ok" /\ ret.val = arg.v
        /\ (arg.cond = "gt3" /\ arg.v = 5) => ret.tag = "Err"
        /\ (arg.cond = "gt3" /\ arg.v = 2) => ret.tag = "Ok" /\ ret.val = 2

C3_Witness ==
    /\ op = "to_err_if"
    /\ arg.v = 5
    /\ arg.cond = "gt3"
    /\ arg.err = "too big"
    /\ ret.tag = "Err"
    /\ ret.val = "too big"

\* C4: in every to_err_if call the failure payload expression is evaluated
\* exactly once, before the predicate runs, whether or not the predicate
\* turns out true.
C4_ErrEager ==
    op = "to_err_if" =>
        /\ Count(events, "err") = 1
        /\ events[1].ev = "err"
        /\ events[1].x = arg.err

C4_Witness ==
    /\ op = "to_err_if"
    /\ ~Cond(arg.cond, arg.v)
    /\ ret.tag = "Ok"
    /\ Count(events, "err") = 1
    /\ Count(events, "cond") = 1

\* C5: to_none_if returns None exactly when cond(v) is true and Some(v)
\* otherwise, and calls the predicate exactly once.
C5_ToNoneIf ==
    op = "to_none_if" =>
        /\ (ret.tag = "None") <=> Cond(arg.cond, arg.v)
        /\ ret.tag # "None" => ret.tag = "Some" /\ ret.val = arg.v
        /\ Count(events, "cond") = 1

C5_Witness ==
    /\ op = "to_none_if"
    /\ arg.cond = "negative"
    /\ arg.v = 0 - 4
    /\ ret.tag = "None"
    /\ Len(events) = 1

\* C6: map_err_to_str turns Err(e) into Err(text of e) and returns Ok(v)
\* as it is, without rendering anything.
C6_MapErrToStr ==
    op = "map_err_to_str" =>
        /\ arg.r.tag = "Err" =>
              /\ ret.tag = "Err"
              /\ ret.val = to_string(arg.r.val)
        /\ arg.r.tag = "Ok" =>
              /\ ret.tag = "Ok"
              /\ ret.val = arg.r.val
              /\ Count(events, "to_string") = 0

C6_Witness ==
    /\ op = "map_err_to_str"
    /\ arg.r.tag = "Err"
    /\ arg.r.val = 0 - 12
    /\ ret.tag = "Err"
    /\ ret.val = "-12"

\* C7: merge_ok_err returns the carried value, from Ok(v) and from Err(v)
\* alike.
C7_MergeOkErr ==
    op = "merge_ok_err" => ret = arg.r.val

C7_Witness ==
    /\ op = "merge_ok_err"
    /\ arg.r.tag = "Err"
    /\ arg.r.val = 7
    /\ ret = 7

\* C8 (result and message): log_err returns its input; on Err(e) it hands
\* the logging facility exactly one error-level message, the prefix
\* directly followed by the text of e; on Ok it hands it nothing.
C8_LogErrCall ==
    op = "log_err" =>
        /\ ret.tag = arg.r.tag
        /\ ret.val = arg.r.val
        /\ arg.r.tag = "Err" =>
              events = <<Event("log::error",
                               arg.log_prefix \o to_string(arg.r.val))>>
        /\ arg.r.tag = "Ok" => events = <<>>

\* C8: log_err returns its input, forwards exactly one message
\* prefix ++ text(e) on Err(e) and none on Ok, and no call installs,
\* reconfigures or removes the logger.
C8_LogErr == []C8_LogErrCall /\ [][loggerInit' = loggerInit]_vars

C8_Witness ==
    /\ op = "log_err"
    /\ arg.r.tag = "Err"
    /\ arg.r.val = 10
    /\ arg.log_prefix = "err: "
    /\ events = <<Event("log::error", "err: 10")>>
    /\ ~loggerInit

\* C9: in_ok followed by merge_ok_err gives back the value in_ok was
\* called on.
C9_RoundTrip ==
    op = "in_ok" => merge_ok_err(ret).ret = arg.v

C9_Witness ==
    /\ op = "in_ok"
    /\ arg.v = 0 - 9
    /\ merge_ok_err(ret).ret = 0 - 9

\* C10: in_ok(v) is Ok(v) and in_err(v) is Err(v), never the other
\* variant, with v as it was given.
C10_WrapInRes ==
    /\ op = "in_ok" => ret.tag = "Ok" /\ ret.val = arg.v
    /\ op = "in_err" => ret.tag = "Err" /\ ret.val = arg.v

C10_Witness ==
    /\ op = "in_err"
    /\ arg.v = 11
    /\ ret.tag = "Err"
    /\ ret.val = 11

====
